---- MODULE Spec2Model ----
(***************************************************************************)
(* Model of src/em.py: the one-shot deduplication of the Physics C E&M     *)
(* topic lookup against every other *TopicLookup.json of the directory.    *)
(*                                                                         *)
(* A file name is a sequence of name parts, so that the suffix match of    *)
(* the glob and the "NEW_" prefix test are computed on the name.  A file's *)
(* content is a record [kind, units]: kind "json" is a document that       *)
(* json.load parses, "invalid" one on which it raises, "absent" no file.   *)
(* A code that a dict lacks is NoneVal, what dict.get returns for it.      *)
(* Every unit, topic and skill carries one more field, id, standing for    *)
(* the sibling fields that the filter must pass through.                   *)
(***************************************************************************)
EXTENDS Integers, Sequences, FiniteSets, TLC

\* ----- bounds of the model
MaxUnits == 2
MaxTopics == 2
MaxSkills == 2
MaxBaseSkills == 2
MaxOtherSkills == 1

\* ----- configuration constants (em.py 20-22)
PHYSICS_FILENAME == <<"Physics_C_Electricity_and_Magnetism_", "TopicLookup.json">>
OUTPUT_FILENAME == <<"NEW_", "Physics_C_Electricity_and_Magnetism_", "TopicLookup.json">>

BiologyName == <<"Biology_", "TopicLookup.json">>
StatisticsName == <<"Statistics_", "TopicLookup.json">>
BackupName == <<"Chemistry_", "TopicLookup.json", ".bak">>

\* The names of the directory in the order sorted() gives them.
SortedNames == <<BiologyName, BackupName, OUTPUT_FILENAME, PHYSICS_FILENAME, StatisticsName>>

FileNames == {SortedNames[i] : i \in 1..Len(SortedNames)}

NoneVal == "<None>"

UnitCodes == {"U1", NoneVal}
TopicCodes == {"T1", ""}
SkillCodes == {"S1", "S2", NoneVal}
OtherUnitCodes == {"U1"}
OtherTopicCodes == {"T1"}
OtherSkillCodes == {"S1", ""}

\* ----- documents
SkillSeqs(ms, scodes) ==
  UNION { { [k \in 1..n |-> [skillCd |-> f[k], id |-> k]] : f \in [1..n -> scodes] }
          : n \in 0..ms }

TopicSeqs(mt, ms, tcodes, scodes) ==
  UNION { { [j \in 1..n |-> [topicCd |-> f[j][1], id |-> j, skills |-> f[j][2]]]
            : f \in [1..n -> tcodes \X SkillSeqs(ms, scodes)] }
          : n \in 0..mt }

UnitSeqs(mu, mt, ms, ucodes, tcodes, scodes) ==
  UNION { { [i \in 1..n |-> [unitCd |-> f[i][1], id |-> i, topics |-> f[i][2]]]
            : f \in [1..n -> ucodes \X TopicSeqs(mt, ms, tcodes, scodes)] }
          : n \in 0..mu }

JsonDoc(units) == [kind |-> "json", units |-> units]
Absent == [kind |-> "absent", units |-> <<>>]
Invalid == [kind |-> "invalid", units |-> <<>>]

\* ----- helpers of main()
Truthy(c) == c # NoneVal /\ c # ""

Exists(d, name) == d[name].kind # "absent"

GlobMatch(name) == name[Len(name)] = "TopicLookup.json"

StartsWithNEW(name) == name[1] = "NEW_"

RECURSIVE SelectNames(_, _, _)
SelectNames(names, d, i) ==
  IF i > Len(names) THEN <<>>
  ELSE (IF Exists(d, names[i]) /\ GlobMatch(names[i]) THEN <<names[i]>> ELSE <<>>)
       \o SelectNames(names, d, i + 1)

AllFiles(d) == SelectNames(SortedNames, d, 1)

IsOtherFileNoPrefixTest(name) == name # PHYSICS_FILENAME

IsOtherFile(name) == name # PHYSICS_FILENAME /\ ~StartsWithNEW(name)

RECURSIVE OtherFiles(_)
OtherFiles(all) ==
  IF all = <<>> THEN <<>>
  ELSE (IF IsOtherFile(Head(all)) THEN <<Head(all)>> ELSE <<>>) \o OtherFiles(Tail(all))

ValidSigNoSkillTest(u_cd, t_cd, s_cd) == Truthy(u_cd) /\ Truthy(t_cd)

ValidSig(u_cd, t_cd, s_cd) == Truthy(u_cd) /\ Truthy(t_cd) /\ Truthy(s_cd)

\* acc is [seen, count]: seen_signatures and other_entry_count.
RECURSIVE AggregateSkills(_, _, _, _)
AggregateSkills(u_cd, t_cd, skills, acc) ==
  IF skills = <<>> THEN acc
  ELSE LET s_cd == Head(skills).skillCd
           next == IF ValidSig(u_cd, t_cd, s_cd)
                   THEN [seen |-> acc.seen \cup {<<u_cd, t_cd, s_cd>>}, count |-> acc.count + 1]
                   ELSE acc
       IN AggregateSkills(u_cd, t_cd, Tail(skills), next)

RECURSIVE AggregateTopics(_, _, _)
AggregateTopics(u_cd, topics, acc) ==
  IF topics = <<>> THEN acc
  ELSE AggregateTopics(u_cd, Tail(topics),
                       AggregateSkills(u_cd, Head(topics).topicCd, Head(topics).skills, acc))

RECURSIVE AggregateUnits(_, _)
AggregateUnits(units, acc) ==
  IF units = <<>> THEN acc
  ELSE AggregateUnits(Tail(units),
                      AggregateTopics(Head(units).unitCd, Head(units).topics, acc))

SigSwapped(u_cd, t_cd, s_cd) == <<t_cd, u_cd, s_cd>>

\* em.py 103
Sig(u_cd, t_cd, s_cd) == <<u_cd, t_cd, s_cd>>

\* em.py 104
IsDuplicate(sig, seen) == sig \in seen

RECURSIVE FilterSkillsNoCount(_, _, _, _, _)
FilterSkillsNoCount(u_cd, t_cd, skills, seen, acc) ==
  IF skills = <<>> THEN acc
  ELSE LET skill == Head(skills)
           next == IF IsDuplicate(Sig(u_cd, t_cd, skill.skillCd), seen)
                   THEN acc
                   ELSE [new_skills |-> Append(acc.new_skills, skill), removed |-> acc.removed]
       IN FilterSkillsNoCount(u_cd, t_cd, Tail(skills), seen, next)

RECURSIVE FilterSkillsFirstOnly(_, _, _, _, _)
FilterSkillsFirstOnly(u_cd, t_cd, skills, seen, acc) ==
  IF skills = <<>> THEN acc
  ELSE LET skill == Head(skills)
           next == IF IsDuplicate(Sig(u_cd, t_cd, skill.skillCd), seen) /\ acc.removed = 0
                   THEN [new_skills |-> acc.new_skills, removed |-> acc.removed + 1]
                   ELSE [new_skills |-> Append(acc.new_skills, skill), removed |-> acc.removed]
       IN FilterSkillsFirstOnly(u_cd, t_cd, Tail(skills), seen, next)

\* em.py 100-108: the loop over one topic's skills; acc is [new_skills, removed].
RECURSIVE FilterSkills(_, _, _, _, _)
FilterSkills(u_cd, t_cd, skills, seen, acc) ==
  IF skills = <<>> THEN acc
  ELSE LET skill == Head(skills)
           next == IF IsDuplicate(Sig(u_cd, t_cd, skill.skillCd), seen)
                   THEN [new_skills |-> acc.new_skills, removed |-> acc.removed + 1]
                   ELSE [new_skills |-> Append(acc.new_skills, skill), removed |-> acc.removed]
       IN FilterSkills(u_cd, t_cd, Tail(skills), seen, next)

KeepTopicAlways(new_skills) == TRUE

KeepUnitAlways(new_topics) == TRUE

KeepTopic(new_skills) == new_skills # <<>>

KeepUnit(new_topics) == new_topics # <<>>

TopicCopyCodeOnly(topic, new_skills) ==
  [topicCd |-> topic.topicCd, id |-> 0, skills |-> new_skills]

TopicCopy(topic, new_skills) == [topic EXCEPT !.skills = new_skills]

UnitCopy(unit, new_topics) == [unit EXCEPT !.topics = new_topics]

\* The loop over one unit's topics; acc is [new_topics, removed].
RECURSIVE FilterTopics(_, _, _, _)
FilterTopics(u_cd, topics, seen, acc) ==
  IF topics = <<>> THEN acc
  ELSE LET topic == Head(topics)
           r == FilterSkills(u_cd, topic.topicCd, topic.skills, seen,
                             [new_skills |-> <<>>, removed |-> 0])
           next == [new_topics |-> IF KeepTopic(r.new_skills)
                                   THEN Append(acc.new_topics, TopicCopy(topic, r.new_skills))
                                   ELSE acc.new_topics,
                    removed |-> acc.removed + r.removed]
       IN FilterTopics(u_cd, Tail(topics), seen, next)

\* The loop over the units; acc is [new_units, removed].
RECURSIVE FilterUnits(_, _, _)
FilterUnits(units, seen, acc) ==
  IF units = <<>> THEN acc
  ELSE LET unit == Head(units)
           r == FilterTopics(unit.unitCd, unit.topics, seen,
                             [new_topics |-> <<>>, removed |-> 0])
           next == [new_units |-> IF KeepUnit(r.new_topics)
                                  THEN Append(acc.new_units, UnitCopy(unit, r.new_topics))
                                  ELSE acc.new_units,
                    removed |-> acc.removed + r.removed]
       IN FilterUnits(Tail(units), seen, next)

\* ----- state
VARIABLES pc, run, dir, other_files, idx, seen_signatures, other_entry_count,
          physics_units, new_units, removed_skills, written, outAtStart

vars == <<pc, run, dir, other_files, idx, seen_signatures, other_entry_count,
          physics_units, new_units, removed_skills, written, outAtStart>>

BaseDocs == { JsonDoc(u) : u \in UnitSeqs(1, 1, MaxBaseSkills, UnitCodes, TopicCodes, SkillCodes) }

OtherDocs ==
  { JsonDoc(u) : u \in UnitSeqs(1, 1, MaxOtherSkills, OtherUnitCodes, OtherTopicCodes, OtherSkillCodes) }

FixedDoc ==
  JsonDoc(<< [unitCd |-> "U1", id |-> 1, topics |->
               << [topicCd |-> "T1", id |-> 1, skills |->
                    << [skillCd |-> "S1", id |-> 1], [skillCd |-> "S2", id |-> 2] >> ] >> ] >>)

Dirs ==
  { [n \in FileNames |->
       CASE n = PHYSICS_FILENAME -> b
         [] n = BiologyName -> o1
         [] n = StatisticsName -> o2
         [] n = OUTPUT_FILENAME -> old
         [] OTHER -> FixedDoc]
    : b \in BaseDocs \cup {Absent, Invalid},
      o1 \in OtherDocs \cup {Absent, Invalid},
      o2 \in OtherDocs \cup {Absent, Invalid},
      old \in {Absent, FixedDoc} }

Locals0 ==
  /\ other_files = <<>>
  /\ idx = 1
  /\ seen_signatures = {}
  /\ other_entry_count = 0
  /\ physics_units = <<>>
  /\ new_units = <<>>
  /\ removed_skills = 0
  /\ written = FALSE

Init ==
  /\ pc = "start"
  /\ run = 1
  /\ dir \in Dirs
  /\ outAtStart = dir[OUTPUT_FILENAME]
  /\ Locals0

\* em.py 31-52: the two existence checks and the selection of the other files.
Discover ==
  /\ pc = "start"
  /\ IF ~Exists(dir, PHYSICS_FILENAME)
     THEN pc' = "no_base" /\ other_files' = other_files
     ELSE IF AllFiles(dir) = <<>>
          THEN pc' = "no_files" /\ other_files' = other_files
          ELSE pc' = "aggregate" /\ other_files' = OtherFiles(AllFiles(dir))
  /\ idx' = 1
  /\ seen_signatures' = {}
  /\ other_entry_count' = 0
  /\ UNCHANGED <<run, dir, physics_units, new_units, removed_skills, written, outAtStart>>

SkipOtherBreak ==
  /\ pc = "aggregate"
  /\ idx <= Len(other_files)
  /\ dir[other_files[idx]].kind = "invalid"
  /\ idx' = Len(other_files) + 1
  /\ UNCHANGED <<pc, run, dir, other_files, seen_signatures, other_entry_count,
                 physics_units, new_units, removed_skills, written, outAtStart>>

\* em.py 54-59: load_json raises on an other file; warn and continue.
SkipOther ==
  /\ pc = "aggregate"
  /\ idx <= Len(other_files)
  /\ dir[other_files[idx]].kind = "invalid"
  /\ idx' = idx + 1
  /\ UNCHANGED <<pc, run, dir, other_files, seen_signatures, other_entry_count,
                 physics_units, new_units, removed_skills, written, outAtStart>>

\* em.py 54-72: one other file parsed and its signatures added.
AggregateOther ==
  /\ pc = "aggregate"
  /\ idx <= Len(other_files)
  /\ dir[other_files[idx]].kind = "json"
  /\ LET r == AggregateUnits(dir[other_files[idx]].units,
                             [seen |-> seen_signatures, count |-> other_entry_count])
     IN /\ seen_signatures' = r.seen
        /\ other_entry_count' = r.count
  /\ idx' = idx + 1
  /\ UNCHANGED <<pc, run, dir, other_files, physics_units, new_units, removed_skills,
                 written, outAtStart>>

\* em.py 74-75: the loop over the other files is over.
AggregateEnd ==
  /\ pc = "aggregate"
  /\ idx > Len(other_files)
  /\ pc' = "load"
  /\ UNCHANGED <<run, dir, other_files, idx, seen_signatures, other_entry_count,
                 physics_units, new_units, removed_skills, written, outAtStart>>

LoadBaseFailsWrites ==
  /\ pc = "load"
  /\ dir[PHYSICS_FILENAME].kind = "invalid"
  /\ pc' = "crashed"
  /\ dir' = [dir EXCEPT ![OUTPUT_FILENAME] = JsonDoc(<<>>)]
  /\ written' = TRUE
  /\ UNCHANGED <<run, other_files, idx, seen_signatures, other_entry_count,
                 physics_units, new_units, removed_skills, outAtStart>>

\* em.py 78: load_json raises on the base file; nothing catches it.
LoadBaseFails ==
  /\ pc = "load"
  /\ dir[PHYSICS_FILENAME].kind = "invalid"
  /\ pc' = "crashed"
  /\ UNCHANGED <<run, dir, other_files, idx, seen_signatures, other_entry_count,
                 physics_units, new_units, removed_skills, written, outAtStart>>

\* em.py 78-86: the base file parsed.
LoadBase ==
  /\ pc = "load"
  /\ dir[PHYSICS_FILENAME].kind = "json"
  /\ physics_units' = dir[PHYSICS_FILENAME].units
  /\ new_units' = <<>>
  /\ removed_skills' = 0
  /\ pc' = "filter"
  /\ UNCHANGED <<run, dir, other_files, idx, seen_signatures, other_entry_count,
                 written, outAtStart>>

\* em.py 89-120: the filter of the base units, in memory.
Filter ==
  /\ pc = "filter"
  /\ LET r == FilterUnits(physics_units, seen_signatures, [new_units |-> <<>>, removed |-> 0])
     IN /\ new_units' = r.new_units
        /\ removed_skills' = r.removed
  /\ pc' = "write"
  /\ UNCHANGED <<run, dir, other_files, idx, seen_signatures, other_entry_count,
                 physics_units, written, outAtStart>>

\* em.py 123-132: the new document written over any prior output.
Write ==
  /\ pc = "write"
  /\ dir' = [dir EXCEPT ![OUTPUT_FILENAME] = JsonDoc(new_units)]
  /\ written' = TRUE
  /\ pc' = "report"
  /\ UNCHANGED <<run, other_files, idx, seen_signatures, other_entry_count,
                 physics_units, new_units, removed_skills, outAtStart>>

\* em.py 135-148: the summary is printed; main() returns.
Report ==
  /\ pc = "report"
  /\ pc' = "done"
  /\ UNCHANGED <<run, dir, other_files, idx, seen_signatures, other_entry_count,
                 physics_units, new_units, removed_skills, written, outAtStart>>

Terminal == {"done", "no_base", "no_files", "crashed"}

\* em.py 151-152: the script is run a second time in the same directory.
Rerun ==
  /\ pc \in Terminal
  /\ run = 1
  /\ run' = 2
  /\ pc' = "start"
  /\ outAtStart' = dir[OUTPUT_FILENAME]
  /\ other_files' = <<>>
  /\ idx' = 1
  /\ seen_signatures' = {}
  /\ other_entry_count' = 0
  /\ physics_units' = <<>>
  /\ new_units' = <<>>
  /\ removed_skills' = 0
  /\ written' = FALSE
  /\ UNCHANGED dir

Next ==
  \/ Discover
  \/ SkipOther
  \/ AggregateOther
  \/ AggregateEnd
  \/ LoadBaseFails
  \/ LoadBase
  \/ Filter
  \/ Write
  \/ Report
  \/ Rerun

Spec == Init /\ [][Next]_vars

\* ----- the filter alone, on richer documents (em.py 89-120)
FilterDocs ==
  UnitSeqs(MaxUnits, 1, 1, UnitCodes, TopicCodes, SkillCodes)
  \cup UnitSeqs(1, MaxTopics, 1, UnitCodes, TopicCodes, SkillCodes)
  \cup UnitSeqs(1, 1, MaxSkills, UnitCodes, TopicCodes, SkillCodes)

FilterSigs ==
  { sig \in UnitCodes \X TopicCodes \X SkillCodes : ValidSig(sig[1], sig[2], sig[3]) }

InitFilter ==
  /\ pc = "filter"
  /\ run = 1
  /\ dir = [n \in FileNames |-> Absent]
  /\ outAtStart = Absent
  /\ other_files = <<>>
  /\ idx = 1
  /\ seen_signatures \in SUBSET FilterSigs
  /\ other_entry_count = 0
  /\ physics_units \in FilterDocs
  /\ new_units = <<>>
  /\ removed_skills = 0
  /\ written = FALSE

\* The filtered units are given to the filter again, with the same signature set.
Refilter ==
  /\ pc = "write"
  /\ run = 1
  /\ run' = 2
  /\ physics_units' = new_units
  /\ new_units' = <<>>
  /\ removed_skills' = 0
  /\ pc' = "filter"
  /\ UNCHANGED <<dir, other_files, idx, seen_signatures, other_entry_count, written, outAtStart>>

NextFilter ==
  \/ Filter
  \/ Refilter

SpecFilter == InitFilter /\ [][NextFilter]_vars

\* ----- vocabulary of the properties
\* The positions <<i, j, k>> of the skills of a units sequence.
Paths(units) ==
  UNION { UNION { { <<i, j, k>> : k \in DOMAIN units[i].topics[j].skills }
                  : j \in DOMAIN units[i].topics }
          : i \in DOMAIN units }

UnitAt(units, p) == units[p[1]]
TopicAt(units, p) == units[p[1]].topics[p[2]]
SkillAt(units, p) == units[p[1]].topics[p[2]].skills[p[3]]
SigAt(units, p) == <<UnitAt(units, p).unitCd, TopicAt(units, p).topicCd, SkillAt(units, p).skillCd>>

Present(c) == c \notin {NoneVal, ""}
AllPresent(sig) == Present(sig[1]) /\ Present(sig[2]) /\ Present(sig[3])

\* The files that count as "other": discovered, not the base, not a prior output.
EligibleNames ==
  { n \in FileNames : /\ dir[n].kind # "absent"
                      /\ n[Len(n)] = "TopicLookup.json"
                      /\ n # PHYSICS_FILENAME
                      /\ n[1] # "NEW_" }

ParsedOthers == { n \in EligibleNames : dir[n].kind = "json" }

ValidSigsOf(units) == { SigAt(units, p) : p \in { q \in Paths(units) : AllPresent(SigAt(units, q)) } }

ValidCountOf(units) == Cardinality({ q \in Paths(units) : AllPresent(SigAt(units, q)) })

RECURSIVE SumOver(_, _)
SumOver(names, i) ==
  IF i > Len(names) THEN 0
  ELSE (IF names[i] \in ParsedOthers THEN ValidCountOf(dir[names[i]].units) ELSE 0)
       + SumOver(names, i + 1)

OutUnits == dir[OUTPUT_FILENAME].units

\* The skill at p of the base units is in the units sequence out, under its unit and topic.
RetainedIn(out, units, p) ==
  \E q \in Paths(out) :
     /\ UnitAt(out, q).id = UnitAt(units, p).id
     /\ UnitAt(out, q).unitCd = UnitAt(units, p).unitCd
     /\ TopicAt(out, q).id = TopicAt(units, p).id
     /\ TopicAt(out, q).topicCd = TopicAt(units, p).topicCd
     /\ SkillAt(out, q) = SkillAt(units, p)

Finished == pc \in {"report", "done"}

\* ----- properties

\* C1: once the output is written, no skill of it has a signature that occurs, with
\* all three codes non-empty, in a parsed other file.
C1_NoDuplicateSurvives ==
  Finished =>
    \A n \in ParsedOthers : \A sig \in ValidSigsOf(dir[n].units) :
       \A q \in Paths(OutUnits) : SigAt(OutUnits, q) # sig

\* A base skill whose signature is in a parsed other file, beside one that is kept.
C1_Witness ==
  /\ pc = "done"
  /\ \E n \in ParsedOthers : \E p \in Paths(physics_units) :
        SigAt(physics_units, p) \in ValidSigsOf(dir[n].units)
  /\ OutUnits # <<>>

C3_RetainedAndRemoved ==
  pc = "write" =>
    /\ \A q \in Paths(new_units) :
          SigAt(new_units, q) \notin seen_signatures \/ ~AllPresent(SigAt(new_units, q))
    /\ removed_skills =
         Cardinality({ p \in Paths(physics_units) : SigAt(physics_units, p) \in seen_signatures })
    /\ \A p \in Paths(physics_units) :
          SigAt(physics_units, p) \notin seen_signatures => RetainedIn(new_units, physics_units, p)

\* Some skills removed and some kept.
C3_Witness ==
  /\ pc = "write"
  /\ removed_skills > 0
  /\ new_units # <<>>

\* C4: a topic is in the output iff one of its skills is kept, a unit iff one of its
\* topics is; no output topic has no skill and no output unit has no topic.
C4_NoEmptyTopicOrUnit ==
  pc = "write" =>
    /\ \A i \in DOMAIN new_units : new_units[i].topics # <<>>
    /\ \A i \in DOMAIN new_units : \A j \in DOMAIN new_units[i].topics :
          new_units[i].topics[j].skills # <<>>
    /\ \A i \in DOMAIN physics_units : \A j \in DOMAIN physics_units[i].topics :
          (\E o \in DOMAIN new_units :
              /\ new_units[o].id = physics_units[i].id
              /\ \E t \in DOMAIN new_units[o].topics :
                    new_units[o].topics[t].id = physics_units[i].topics[j].id)
          <=> (\E k \in DOMAIN physics_units[i].topics[j].skills :
                  SigAt(physics_units, <<i, j, k>>) \notin seen_signatures)
    /\ \A i \in DOMAIN physics_units :
          (\E o \in DOMAIN new_units : new_units[o].id = physics_units[i].id)
          <=> (\E p \in Paths(physics_units) :
                  p[1] = i /\ SigAt(physics_units, p) \notin seen_signatures)

\* A topic or unit is dropped because all its skills were removed, another is kept.
C4_Witness ==
  /\ pc = "write"
  /\ removed_skills > 0
  /\ new_units # <<>>
  /\ \/ Len(new_units) < Len(physics_units)
     \/ \E i \in DOMAIN physics_units : \E o \in DOMAIN new_units :
           /\ new_units[o].id = physics_units[i].id
           /\ Len(new_units[o].topics) < Len(physics_units[i].topics)

HasSkills(topic) == topic.skills # <<>>
HasTopics(unit) == unit.topics # <<>>
PruneEmpty(units) ==
  SelectSeq([i \in DOMAIN units |->
               [units[i] EXCEPT !.topics = SelectSeq(units[i].topics, HasSkills)]],
            HasTopics)

NoOtherFiles == EligibleNames = {}

\* C5 as stated: with no other file the output units are the base units.
C5_Original ==
  (pc = "done" /\ NoOtherFiles) => OutUnits = dir[PHYSICS_FILENAME].units

\* C5 amended: with no other file the output units are the base units without the
\* topics that have no skill and without the units then left with no topic; they
\* are the base units exactly when the base has no such topic or unit.
C5_Amended ==
  (pc = "done" /\ NoOtherFiles) =>
    /\ seen_signatures = {}
    /\ removed_skills = 0
    /\ OutUnits = PruneEmpty(dir[PHYSICS_FILENAME].units)
    /\ (OutUnits = dir[PHYSICS_FILENAME].units)
         <=> (\A i \in DOMAIN physics_units :
                 /\ HasTopics(physics_units[i])
                 /\ \A j \in DOMAIN physics_units[i].topics :
                       HasSkills(physics_units[i].topics[j]))

\* No other file and a base whose skills, with and without codes, all reach the output.
C5_Witness ==
  /\ pc = "done"
  /\ NoOtherFiles
  /\ \E q \in Paths(OutUnits) : AllPresent(SigAt(OutUnits, q))
  /\ \E q \in Paths(OutUnits) : ~AllPresent(SigAt(OutUnits, q))

\* C6: the filter applied to its own output, with the same set, gives the same units
\* back and removes nothing.
C6_Idempotent ==
  (run = 2 /\ pc = "write") => (new_units = physics_units /\ removed_skills = 0)

\* The second application, on an output from which the first removed a skill.
C6_Witness ==
  /\ run = 2
  /\ pc = "write"
  /\ new_units # <<>>
  /\ \E p \in Paths(new_units) : AllPresent(SigAt(new_units, p))
  /\ seen_signatures # {}

\* C7: in a run that ended for a missing base file, for no matching file or on a
\* parse error of the base file, the output file was not written and is as it was;
\* a write happens only after the base was parsed and filtered.
C7_NoWriteOnFailure ==
  /\ pc \in {"no_base", "no_files", "crashed"} =>
       (~written /\ dir[OUTPUT_FILENAME] = outAtStart)
  /\ written => (Finished /\ dir[PHYSICS_FILENAME].kind = "json"
                 /\ dir[OUTPUT_FILENAME] = JsonDoc(new_units))
  /\ pc \in {"start", "aggregate", "load", "filter", "write"} =>
       dir[OUTPUT_FILENAME] = outAtStart

\* The base file fails to parse while an earlier output is in the directory.
C7_Witness ==
  /\ pc = "crashed"
  /\ dir[OUTPUT_FILENAME].kind = "json"
  /\ seen_signatures # {}

\* C8: after the loop over the other files, the set and the counter hold the valid
\* entries of every other file that parses, whatever files failed; only a parse
\* failure of the base file ends the run, and then nothing is filtered; with a base
\* file that parses, the run always has its next step, up to the write.
C8_OtherParseFailureSkipped ==
  /\ pc \in {"load", "filter", "write", "report", "done", "crashed"} =>
       /\ seen_signatures = UNION { ValidSigsOf(dir[n].units) : n \in ParsedOthers }
       /\ other_entry_count = SumOver(SortedNames, 1)
  /\ pc = "crashed" => dir[PHYSICS_FILENAME].kind = "invalid"
  /\ dir[PHYSICS_FILENAME].kind = "invalid" => pc \notin {"filter", "write", "report", "done"}
  /\ (pc \in {"aggregate", "load", "filter", "write"} /\ dir[PHYSICS_FILENAME].kind = "json") =>
       ENABLED (SkipOther \/ AggregateOther \/ AggregateEnd \/ LoadBase \/ Filter \/ Write)

\* The first other file fails to parse, the last one contributes, the run completes.
C8_Witness ==
  /\ pc = "done"
  /\ dir[BiologyName].kind = "invalid"
  /\ dir[StatisticsName].kind = "json"
  /\ seen_signatures # {}
  /\ removed_skills > 0

StrictlyIncreasing(f) == \A a, b \in DOMAIN f : a < b => f[a] < f[b]

SkillsSubseq(out, in) ==
  \E h \in [DOMAIN out -> DOMAIN in] :
     /\ StrictlyIncreasing(h)
     /\ \A k \in DOMAIN out : out[k] = in[h[k]]

TopicsSubseq(out, in) ==
  \E g \in [DOMAIN out -> DOMAIN in] :
     /\ StrictlyIncreasing(g)
     /\ \A j \in DOMAIN out :
           /\ DOMAIN out[j] = DOMAIN in[g[j]]
           /\ out[j].topicCd = in[g[j]].topicCd
           /\ out[j].id = in[g[j]].id
           /\ SkillsSubseq(out[j].skills, in[g[j]].skills)

UnitsSubseq(out, in) ==
  \E f \in [DOMAIN out -> DOMAIN in] :
     /\ StrictlyIncreasing(f)
     /\ \A i \in DOMAIN out :
           /\ DOMAIN out[i] = DOMAIN in[f[i]]
           /\ out[i].unitCd = in[f[i]].unitCd
           /\ out[i].id = in[f[i]].id
           /\ TopicsSubseq(out[i].topics, in[f[i]].topics)

\* C9: the kept units, topics and skills are subsequences of the base's, and every
\* field of a kept unit or topic but topics and skills, and every field of a kept
\* skill, has the value it has in the base.
C9_FramePreserved ==
  pc = "write" => UnitsSubseq(new_units, physics_units)

\* A skill is kept at a position other than its position in the base, because a
\* unit, topic or skill before it was dropped.
C9_Witness ==
  /\ pc = "write"
  /\ run = 1
  /\ \E q \in Paths(new_units) :
        <<UnitAt(new_units, q).id, TopicAt(new_units, q).id, SkillAt(new_units, q).id>> # q

\* C10: the other files never include the base file nor the output file, the set
\* holds no signature that only a prior output has, and the second run writes the
\* output the first run wrote.
C10_PriorOutputExcluded ==
  /\ \A i \in DOMAIN other_files : other_files[i] \notin {PHYSICS_FILENAME, OUTPUT_FILENAME}
  /\ \A i \in DOMAIN other_files : other_files[i] \in EligibleNames
  /\ seen_signatures \subseteq UNION { ValidSigsOf(dir[n].units) : n \in ParsedOthers }
  /\ (run = 2 /\ pc = "done") => dir[OUTPUT_FILENAME] = outAtStart

\* The second run ends with the first run's output, which holds a valid signature,
\* in the directory.
C10_Witness ==
  /\ run = 2
  /\ pc = "done"
  /\ \E q \in Paths(OutUnits) : AllPresent(SigAt(OutUnits, q))
  /\ other_files # <<>>

====
